---- MODULE Spec2Model ----
(***************************************************************************)
(* State-machine model of the Shopify insights fetcher: the storefront     *)
(* check, the extraction pipeline of InsightsExtractor, the page           *)
(* extractors of ShopifyScraper, the POST /analyze handler and the         *)
(* competitor discovery of POST /analyze-with-competitors.                 *)
(***************************************************************************)
EXTENDS Integers, Sequences, FiniteSets, TLC

VARIABLES
    pc,             \* position of the request handler / of extract_all_insights
    endpoint,       \* which operation is running
    caller,         \* who called extract_all_insights
    website_url,    \* the argument of extract_all_insights
    probe,          \* what the two requests of is_shopify_store gave
    soup,           \* the parsed homepage document held by extract_all_insights
    brand_context,  \* the BrandContext under construction / returned
    failed_stage,   \* stage whose exception the handler of line 93 caught
    error,          \* exception propagating out of extract_all_insights
    llm_enabled,    \* LLMService.enabled
    db_available,   \* db_manager and db_manager.SessionLocal
    response,       \* what the endpoint sent back
    primary_brand,  \* the argument of analyze_competitors
    search_terms,   \* search_terms of analyze_competitors
    competitor_urls,\* candidates the loop has not visited yet
    competitors,    \* competitors of analyze_competitors
    analysis,       \* the CompetitorAnalysis it returned
    arg,            \* input of the extractor being exercised on its own
    ret             \* its result

vars == <<pc, endpoint, caller, website_url, probe, soup, brand_context,
          failed_stage, error, llm_enabled, db_available, response,
          primary_brand, search_terms, competitor_urls, competitors, analysis,
          arg, ret>>

----------------------------------------------------------------------------
(* Bounds of the inputs                                                    *)

MaxFeed == 2        \* entries of a product feed (request flow)
MaxCatalog == 3     \* products of a catalog (hero resolution on its own)
MaxProbedCategories == 2  \* policy categories followed in the request log
MaxEntries == 3     \* entries of a product feed (catalog resolution on its own)
MaxTerms == 2       \* search terms (candidate lookup on its own)
MaxSaves == 3       \* calls of save_brand_analysis in a row

(* Program constants                                                       *)

HeroLimit == 10         \* scraper.py:275
PolicyMinLength == 100  \* scraper.py:216
PolicyMaxLength == 2000 \* scraper.py:219
StatusOk == 200
StatusUnauthorized == 401
StatusInternalError == 500
MaxCompetitors == 3     \* main.py:187
FallbackProducts == 10  \* competitor_service.py:139
FallbackNameWords == 3  \* competitor_service.py:148
FallbackTerms == 8      \* competitor_service.py:154
SummaryTerms == 5       \* competitor_service.py:160

----------------------------------------------------------------------------
(* Sequences                                                               *)

Range(s) == {s[i] : i \in 1..Len(s)}

SeqsUpTo(S, n) == UNION {[1..k -> S] : k \in 0..n}

IsPrefix(s, t) == Len(s) <= Len(t) /\ SubSeq(t, 1, Len(s)) = s

Last(s) == s[Len(s)]

Min(a, b) == IF a <= b THEN a ELSE b

----------------------------------------------------------------------------
(* Notes written into extraction_notes                                     *)

\* A note is its text and, for the similarity note, the score it formats.
Note(text) == [text |-> text, score |-> 0]

SuccessNote == Note("Successfully extracted data")
PartialNote == Note("Partial extraction due to error")
LlmNote == Note("Enhanced data using LLM processing")
LlmFailedNote == Note("LLM enhancement partially failed")
SavedNote == Note("Saved to database with ID")
SaveFailedNote == Note("Database save failed")

----------------------------------------------------------------------------
(* The product feed and the catalog                                        *)

\* One raw entry of the feed's products array.  "ok" normalizes to a Product,
\* "invalid" makes Product(...) raise inside the per-entry try (a null
\* title), "nondict" is an entry that is no JSON object.
FeedEntries ==
    {[handle |-> "a", kind |-> "ok"], [handle |-> "b", kind |-> "ok"],
     [handle |-> "a", kind |-> "invalid"], [handle |-> "", kind |-> "nondict"]}

\* What GET /products.json gives get_products_json: "err" is None (request
\* or JSON error), "nokey" an object without a products key, "null" an
\* object whose products value is no array, "list" an object with an array.
FeedResponses ==
    {[kind |-> k, products |-> <<>>] : k \in {"err", "nokey", "null"}}
        \cup {[kind |-> "list", products |-> p] : p \in SeqsUpTo(FeedEntries, MaxFeed)}

\* product_type of the feed entry with a handle; "" when it has none.
ProductTypeOf(handle) ==
    CASE handle = "a" -> "Lipstick"
      [] handle = "b" -> "Eyeshadow"
      [] OTHER -> ""

\* Product(...) of lines 124-139, with the fields the model follows.
Product(entry) == [handle |-> entry.handle, product_type |-> ProductTypeOf(entry.handle)]

\* The loop of _extract_products.  An "invalid" entry raises inside the try
\* and is skipped; for a "nondict" entry the except clause itself evaluates
\* product_data.get('id'), which raises out of the loop.
RECURSIVE NormalizeEntries(_, _)
NormalizeEntries(entries, acc) ==
    IF entries = <<>> THEN [raised |-> FALSE, products |-> acc]
    ELSE LET e == Head(entries) IN
         IF e.kind = "ok"
             THEN NormalizeEntries(Tail(entries), Append(acc, Product(e)))
         ELSE IF e.kind = "invalid"
             THEN NormalizeEntries(Tail(entries), acc)
         ELSE [raised |-> TRUE, products |-> acc]

_extract_products(feed) ==
    IF feed.kind = "list" THEN NormalizeEntries(feed.products, <<>>)
    ELSE IF feed.kind = "null" THEN [raised |-> TRUE, products |-> <<>>]
    ELSE [raised |-> FALSE, products |-> <<>>]

----------------------------------------------------------------------------
(* Hero products                                                           *)

\* Handles that may stand in a homepage anchor; "z" is in no catalog.
AnchorHandles == {"a", "c", "z"}

\* An anchor whose href contains /products/: the handle segment and what
\* follows it ("" nothing, "?" a query string, "/" a further path segment).
ProductAnchors == [handle : AnchorHandles, rest : {"", "?"}]

\* re.search(r'/products/([^/?]+)', href).group(1): the segment after
\* /products/ up to the next "/" or "?".
HandleOfHref(anchor) == anchor.handle

\* get_hero_products: list(set(hero_product_handles))[:10].  The order of a
\* set's elements is not fixed, so the cut keeps any HeroLimit of them: the
\* operator gives every list the call may return, as a set of handle sets.
get_hero_products(anchors) ==
    LET found == {HandleOfHref(a) : a \in anchors}
        n == Min(Cardinality(found), HeroLimit)
    IN  {hs \in SUBSET found : Cardinality(hs) = n}

\* A Product made up for every homepage handle, in the catalog or not.
RECURSIVE ProductsFromHandles(_, _)
ProductsFromHandles(products, handles_set) ==
    IF handles_set = {} THEN <<>>
    ELSE LET h == CHOOSE x \in handles_set : TRUE IN
         <<[handle |-> h]>> \o ProductsFromHandles(products, handles_set \ {h})

\* Only the first matching product is kept.
RECURSIVE FirstMatchOnly(_, _)
FirstMatchOnly(products, handles_set) ==
    IF products = <<>> THEN <<>>
    ELSE IF Head(products).handle \in handles_set THEN <<Head(products)>>
    ELSE FirstMatchOnly(Tail(products), handles_set)

RECURSIVE _get_products_by_handles(_, _)
_get_products_by_handles(products, handles_set) ==
    IF products = <<>> THEN <<>>
    ELSE LET rest == _get_products_by_handles(Tail(products), handles_set) IN
         IF Head(products).handle \in handles_set
             THEN <<Head(products)>> \o rest
             ELSE rest

----------------------------------------------------------------------------
(* Social links                                                            *)

\* social_patterns, in the dict's order.
Platforms == <<"instagram", "facebook", "twitter", "tiktok",
               "youtube", "linkedin", "pinterest">>

\* An <a href>: the site it points to, the first path segment, and whether
\* the href is written with capital letters.  "empty" is href="".
SocialHrefs ==
    [site : {"instagram", "facebook"}, path : {"brandx"}, caps : BOOLEAN]
        \cup {[site |-> "other", path |-> "about", caps |-> FALSE],
              [site |-> "empty", path |-> "", caps |-> FALSE]}

\* link.get('href', '').lower()
Lower(href) == [href EXCEPT !.caps = FALSE]

\* re.search(social_patterns[platform], href)
PatternMatches(platform, href) == href.site = platform

\* The inner loop over social_patterns for one href.
RECURSIVE MatchPlatforms(_, _, _)
MatchPlatforms(href, i, acc) ==
    IF i > Len(Platforms) THEN acc
    ELSE IF PatternMatches(Platforms[i], href)
        THEN MatchPlatforms(href, i + 1,
                 Append(acc, [platform |-> Platforms[i],
                              url |-> <<href.site, href.path>>,
                              handle |-> href.path]))
        ELSE MatchPlatforms(href, i + 1, acc)

\* extract_social_links: one entry per link and matching pattern, appended
\* in document order.
RECURSIVE extract_social_links(_, _)
extract_social_links(links, acc) ==
    IF links = <<>> THEN acc
    ELSE LET href == Lower(Head(links)) IN
         IF href.site = "empty"
             THEN extract_social_links(Tail(links), acc)
             ELSE extract_social_links(Tail(links), MatchPlatforms(href, 1, acc))

----------------------------------------------------------------------------
(* Policies                                                                *)

PolicyNames == <<"privacy_policy", "return_policy", "refund_policy",
                 "terms_of_service", "shipping_policy">>

\* Candidate paths per category (policy_urls): three for each.
PolicyCandidates == 1..3

\* What probing one candidate path gives: "err" the fetch failed (soup is
\* None), "noelem" a document without a content element, "content" a
\* document whose content element has text of the given length.
ContentLengths == {99, 100, 101, 2001}

PolicyPages ==
    {[kind |-> "err", length |-> 0], [kind |-> "noelem", length |-> 0]}
        \cup {[kind |-> "content", length |-> n] : n \in ContentLengths}

NoPolicy == [present |-> FALSE, length |-> 0, candidate |-> 0]

\* len(content) >= 100
IsSubstantialInclusive(page) ==
    page.kind = "content" /\ page.length >= PolicyMinLength

\* if len(content) > 100
IsSubstantial(page) == page.kind = "content" /\ page.length > PolicyMinLength

\* The inner loop of extract_policies for one category: the first candidate
\* with substantial content is taken, content[:2000], and the loop breaks.
RECURSIVE ResolvePolicy(_, _)
ResolvePolicy(pages, i) ==
    IF i > Len(pages) THEN NoPolicy
    ELSE IF IsSubstantial(pages[i])
        THEN [present |-> TRUE,
              length |-> Min(pages[i].length, PolicyMaxLength),
              candidate |-> i]
        ELSE ResolvePolicy(pages, i + 1)

\* extract_policies over a site: site[name] is the sequence of what each of
\* the category's candidate paths serves.
extract_policies(site) ==
    [name \in Range(PolicyNames) |-> ResolvePolicy(site[name], 1)]

----------------------------------------------------------------------------
(* Documents and sites of the request flow                                 *)

NoneStr == "None"

Instagram == [site |-> "instagram", path |-> "brandx", caps |-> FALSE]
Facebook == [site |-> "facebook", path |-> "brandx", caps |-> FALSE]

\* The selectors of extract_faqs, in the order of the list.
FaqSelectors == <<"div.faq", "section.faq", "div.question", "details", "div.accordion">>

\* An element of the page that holds a question and an answer: the
\* selectors it matches, and whether both texts are found and long enough.
FaqElement(text, matches) ==
    [text |-> text, caps |-> TRUE, matches |-> matches, complete |-> TRUE]

\* extract_faqs from the selector of index i on: for every selector the
\* matching elements in document order, each complete one appended.
RECURSIVE ExtractFaqsFrom(_, _)
ExtractFaqsFrom(elements, i) ==
    IF i > Len(FaqSelectors) THEN <<>>
    ELSE LET selected == SelectSeq(elements,
                             LAMBDA e : FaqSelectors[i] \in e.matches /\ e.complete)
         IN [k \in 1..Len(selected) |->
                [text |-> selected[k].text, caps |-> selected[k].caps]]
            \o ExtractFaqsFrom(elements, i + 1)

extract_faqs(elements) == ExtractFaqsFrom(elements, 1)

\* The homepage as the extractors see it.
HomeDocs ==
    [title : {"BrandX"},
     product_links : SUBSET {[handle |-> h, rest |-> ""] : h \in {"a", "z"}},
     social_links : {<<>>, <<Instagram>>, <<Instagram, Instagram>>,
                     <<Instagram, Facebook>>},
     about : {"Our story"},
     faqs : {<<>>, <<FaqElement("returns", {"div.faq"})>>,
             <<FaqElement("returns", {"div.faq", "div.question"})>>},
     nav_links : {<<"contact">>},
     emails : {{"hi@brandx.com"}},
     currency : {"USD"}]

NoSoup ==
    [title |-> NoneStr, about |-> NoneStr, product_links |-> {}, social_links |-> <<>>,
     faqs |-> <<>>, nav_links |-> <<>>, emails |-> {}, currency |-> NoneStr]

\* What the root document shows the storefront check: "err" it cannot be
\* fetched, "plain" no platform marker, "shopify" some marker.
RootPages == {"err", "plain", "shopify"}

AllPages(page) == [name \in Range(PolicyNames) |-> <<page, page, page>>]

\* Policy pages a site serves, per category and candidate path.
PolicySites ==
    {AllPages([kind |-> "err", length |-> 0]),
     AllPages([kind |-> "content", length |-> 2001]),
     [AllPages([kind |-> "noelem", length |-> 0]) EXCEPT
         !["privacy_policy"] = <<[kind |-> "content", length |-> 100],
                                 [kind |-> "content", length |-> 101],
                                 [kind |-> "err", length |-> 0]>>]}

----------------------------------------------------------------------------
(* BrandContext                                                            *)

\* BrandContext(website_url=...): the defaults of models.py.
BrandContext(url) ==
    [website_url |-> url,
     brand_name |-> NoneStr,
     about_brand |-> NoneStr,
     product_catalog |-> <<>>,
     hero_products |-> <<>>,
     total_products |-> 0,
     policies |-> [name \in Range(PolicyNames) |-> NoPolicy],
     faqs |-> <<>>,
     social_handles |-> <<>>,
     contact_info |-> {},
     important_links |-> <<>>,
     currency |-> NoneStr,
     extraction_success |-> TRUE,
     extraction_notes |-> <<>>]

NoContext == BrandContext("")

NoSummary == [kind |-> "none", terms |-> <<>>, found |-> 0]

NoAnalysis ==
    [primary_brand |-> NoContext, competitors |-> <<>>, analysis_summary |-> NoSummary]

NoResponse ==
    [status |-> 0, success |-> FALSE, data |-> NoContext, analysis |-> NoAnalysis]

Stages == <<"brand_info", "products", "hero", "social", "contact",
            "faqs", "policies", "links", "metadata">>

StagePcs == Range(Stages)

\* The except clause without the flag.
HandleStageFailureKeepFlag(ctx) ==
    [ctx EXCEPT !.extraction_notes = Append(@, PartialNote)]

\* The except clause of extract_all_insights.
HandleStageFailure(ctx) ==
    [ctx EXCEPT !.extraction_success = FALSE,
                !.extraction_notes = Append(@, PartialNote)]

\* The flag set without the note.
MarkSuccessFlagOnly(ctx) == [ctx EXCEPT !.extraction_success = TRUE]

\* Lines 89-91: the success note and flag.
MarkSuccess(ctx) ==
    [ctx EXCEPT !.extraction_notes = Append(@, SuccessNote),
                !.extraction_success = TRUE]

----------------------------------------------------------------------------
(* Inputs of one request.  POST /analyze-with-competitors runs the         *)
(* pipeline up to four times in a row, so its inputs are drawn from        *)
(* narrower sets than those of POST /analyze.                              *)

NarrowFeeds ==
    {[kind |-> "err", products |-> <<>>],
     [kind |-> "null", products |-> <<>>],
     [kind |-> "list", products |-> <<[handle |-> "a", kind |-> "ok"]>>]}

NarrowDoc ==
    [title |-> "BrandX", about |-> "Our story",
     product_links |-> {[handle |-> "a", rest |-> ""]},
     social_links |-> <<Instagram>>,
     faqs |-> <<>>, nav_links |-> <<"contact">>,
     emails |-> {"hi@brandx.com"}, currency |-> "USD"]

FeedInputs == IF endpoint = "analyze" THEN FeedResponses ELSE NarrowFeeds

DocInputs == IF endpoint = "analyze" THEN HomeDocs ELSE {NarrowDoc}

PolicySiteInputs ==
    IF endpoint = "analyze" THEN PolicySites
    ELSE {AllPages([kind |-> "err", length |-> 0])}

\* Whether a stage without a data-dependent failure may raise.
StageFaults == IF endpoint = "analyze" THEN BOOLEAN ELSE {FALSE}

EnhancedInputs == IF endpoint = "analyze" THEN {"", "Clean story"} ELSE {"Clean story"}

PageFetchedInputs == IF endpoint = "analyze" THEN BOOLEAN ELSE {TRUE}

----------------------------------------------------------------------------
(* extract_all_insights                                                    *)

config == <<llm_enabled, db_available>>
standalone == <<arg, ret>>
request == <<endpoint, response>>
call == <<caller, website_url>>
discovery == <<primary_brand, search_terms, competitor_urls, competitors, analysis>>

\* if products_data and 'products' in products_data
FeedHasProductsKey(feed_kind) == feed_kind \in {"null", "list"}

\* Any fetched root page counts as a storefront.
StoreIfPageFetched(feed_kind, root) ==
    IF FeedHasProductsKey(feed_kind) THEN TRUE
    ELSE root \in {"plain", "shopify"}

\* is_shopify_store on what the two probes gave: the feed probe, then the
\* marker scan of the root page (any(...) over the four indicators).
is_shopify_store(feed_kind, root) ==
    IF FeedHasProductsKey(feed_kind) THEN TRUE
    ELSE root = "shopify"

NoProbe == [feed |-> "none", root |-> "none"]

\* The call entered past its store check, at the homepage fetch.
EnterPastCheck(url, from) ==
    /\ pc' = "get_page_content"
    /\ website_url' = url
    /\ caller' = from
    /\ probe' = NoProbe
    /\ soup' = NoSoup
    /\ brand_context' = BrandContext(url)
    /\ failed_stage' = "none"
    /\ error' = "none"

\* The state of a call of extract_all_insights before its first line.
EnterExtraction(url, from) ==
    /\ pc' = "is_shopify_store"
    /\ website_url' = url
    /\ caller' = from
    /\ probe' = NoProbe
    /\ soup' = NoSoup
    /\ brand_context' = NoContext
    /\ failed_stage' = "none"
    /\ error' = "none"

\* The requests of is_shopify_store: GET /products.json, and the root page
\* when the feed gave no products key.
ProbeStore ==
    /\ pc = "is_shopify_store"
    /\ \E feed \in FeedInputs, root \in RootPages :
          probe' = [feed |-> feed.kind,
                    root |-> IF FeedHasProductsKey(feed.kind)
                                 THEN "unfetched" ELSE root]
    /\ pc' = "store_checked"
    /\ UNCHANGED <<config, standalone, request, call, discovery,
                   soup, brand_context, failed_stage, error>>

\* Lines 23-28: ValueError when the check fails, otherwise the BrandContext
\* is created.
CheckStore ==
    /\ pc = "store_checked"
    /\ IF is_shopify_store(probe.feed, probe.root)
          THEN /\ pc' = "get_page_content"
               /\ brand_context' = BrandContext(website_url)
               /\ probe' = NoProbe
               /\ error' = error
          ELSE /\ pc' = "raised"
               /\ error' = "ValueError"
               /\ UNCHANGED <<brand_context, probe>>
    /\ UNCHANGED <<config, standalone, request, call, discovery,
                   soup, failed_stage>>

\* Lines 30-33: the homepage fetch; Exception when there is no document.
GetHomePage ==
    /\ pc = "get_page_content"
    /\ \/ /\ \E doc \in DocInputs : soup' = doc
          /\ pc' = "brand_info"
          /\ UNCHANGED error
       \/ /\ pc' = "raised"
          /\ error' = "Exception"
          /\ UNCHANGED soup
    /\ UNCHANGED <<config, standalone, request, call, discovery,
                   probe, brand_context, failed_stage>>

\* A stage raised inside the try block: the except clause runs and
\* extract_all_insights returns the context.
StageRaises(stage) ==
    /\ brand_context' = HandleStageFailure(brand_context)
    /\ failed_stage' = stage
    /\ pc' = "returned"

\* A stage completed and stored its field.
StageStores(ctx, next) ==
    /\ brand_context' = ctx
    /\ pc' = next
    /\ UNCHANGED failed_stage

\* Lines 36-39.
ExtractBrandInfo ==
    /\ pc = "brand_info"
    /\ \E raises \in StageFaults :
          IF raises THEN StageRaises("brand_info")
          ELSE StageStores([brand_context EXCEPT !.brand_name = soup.title,
                                                 !.about_brand = soup.about],
                           "products")
    /\ UNCHANGED <<config, standalone, request, call, discovery,
                   probe, soup, error>>

\* The catalog stored without its count.
StoreCatalogNoCount(ctx, products_data) ==
    [ctx EXCEPT !.product_catalog = products_data.products]

\* Lines 43-44: the catalog and its count.
StoreCatalog(ctx, products_data) ==
    [ctx EXCEPT !.product_catalog = products_data.products,
                !.total_products = Len(products_data.products)]

\* Lines 41-44.
ExtractProducts ==
    /\ pc = "products"
    /\ \E feed \in FeedInputs :
          LET products_data == _extract_products(feed) IN
          IF products_data.raised THEN StageRaises("products")
          ELSE StageStores(StoreCatalog(brand_context, products_data), "hero")
    /\ UNCHANGED <<config, standalone, request, call, discovery,
                   probe, soup, error>>

\* Lines 46-50.
ExtractHeroProducts ==
    /\ pc = "hero"
    /\ \E raises \in StageFaults :
          IF raises THEN StageRaises("hero")
          ELSE \E handles \in get_hero_products(soup.product_links) :
                  StageStores([brand_context EXCEPT !.hero_products =
                                  _get_products_by_handles(
                                      brand_context.product_catalog, handles)],
                              "social")
    /\ UNCHANGED <<config, standalone, request, call, discovery,
                   probe, soup, error>>

\* Lines 52-56.
ExtractSocialHandles ==
    /\ pc = "social"
    /\ \E raises \in StageFaults :
          IF raises THEN StageRaises("social")
          ELSE StageStores([brand_context EXCEPT !.social_handles =
                               extract_social_links(soup.social_links, <<>>)],
                           "contact")
    /\ UNCHANGED <<config, standalone, request, call, discovery,
                   probe, soup, error>>

\* Lines 58-60.
ExtractContactInfo ==
    /\ pc = "contact"
    /\ \E raises \in StageFaults :
          IF raises THEN StageRaises("contact")
          ELSE StageStores([brand_context EXCEPT !.contact_info = soup.emails],
                           "faqs")
    /\ UNCHANGED <<config, standalone, request, call, discovery,
                   probe, soup, error>>

\* Lines 62-64.
ExtractFaqs ==
    /\ pc = "faqs"
    /\ \E raises \in StageFaults :
          IF raises THEN StageRaises("faqs")
          ELSE StageStores([brand_context EXCEPT !.faqs = extract_faqs(soup.faqs)],
                           "policies")
    /\ UNCHANGED <<config, standalone, request, call, discovery,
                   probe, soup, error>>

\* Lines 66-77: every candidate probe is caught inside extract_policies.
ExtractPolicies ==
    /\ pc = "policies"
    /\ \E site \in PolicySiteInputs :
          StageStores([brand_context EXCEPT !.policies = extract_policies(site)],
                      "links")
    /\ UNCHANGED <<config, standalone, request, call, discovery,
                   probe, soup, error>>

\* Lines 79-83.
ExtractImportantLinks ==
    /\ pc = "links"
    /\ \E raises \in StageFaults :
          IF raises THEN StageRaises("links")
          ELSE StageStores([brand_context EXCEPT !.important_links = soup.nav_links],
                           "metadata")
    /\ UNCHANGED <<config, standalone, request, call, discovery,
                   probe, soup, error>>

\* Lines 85-91: currency and country (both catch their own errors), then
\* the success note.
ExtractMetadata ==
    /\ pc = "metadata"
    /\ StageStores(MarkSuccess([brand_context EXCEPT !.currency = soup.currency]),
                   "returned")
    /\ UNCHANGED <<config, standalone, request, call, discovery,
                   probe, soup, error>>

----------------------------------------------------------------------------
(* POST /analyze                                                           *)

\* faq.question.lower()
LowerQuestion(q) == [q EXCEPT !.caps = FALSE]

\* What structure_faqs may answer.
LlmFaqAnswers ==
    {<<>>,
     <<[text |-> "returns", caps |-> FALSE]>>,
     <<[text |-> "shipping", caps |-> TRUE], [text |-> "shipping", caps |-> FALSE]>>}

FaqAnswerInputs == IF endpoint = "analyze" THEN LlmFaqAnswers ELSE {<<>>}

\* structure_faqs: [] when the capability is disabled or slicing the text
\* raised, else the FAQs parsed from the answer.
structure_faqs(enabled, raw_text, answer) ==
    IF ~ enabled \/ raw_text = NoneStr THEN <<>> ELSE answer

\* What extract_contact_info may parse from the answer.
LlmContactAnswers ==
    {[emails |-> {}, address |-> NoneStr],
     [emails |-> {"hi@brandx.com"}, address |-> "1 Main St"]}

\* extract_contact_info: None when the capability is disabled or slicing
\* the text raised.
extract_contact_info(enabled, raw_text, answer) ==
    IF ~ enabled \/ raw_text = NoneStr THEN [kind |-> "none", info |-> <<>>]
    ELSE [kind |-> "contact", info |-> answer]

\* enhance_brand_description: the input itself when the capability is
\* disabled or the text is None or empty, else the answer.
enhance_brand_description(enabled, raw_about_text, answer) ==
    IF ~ enabled \/ raw_about_text = NoneStr \/ raw_about_text = ""
        THEN raw_about_text
        ELSE answer

\* What extract_social_handles may parse from the answer.
LlmSocialAnswers == {<<>>, <<Instagram>>}

\* extract_social_handles: [] when the capability is disabled or slicing
\* the text raised.
extract_social_handles(enabled, raw_text, answer) ==
    IF ~ enabled \/ raw_text = NoneStr THEN <<>> ELSE answer

\* Whether a method called with the text reaches
\* openai.ChatCompletion.create: never when disabled, nor when the prompt
\* cannot be built from the text.
ContactsService(method, enabled, raw_text) ==
    /\ enabled
    /\ raw_text # NoneStr
    /\ method = "enhance_brand_description" => raw_text # ""

\* Lines 114-118: the additional FAQs whose lowercased question is new.
RECURSIVE MergeFaqs(_, _, _)
MergeFaqs(faqs, additional, existing_questions) ==
    IF additional = <<>> THEN faqs
    ELSE LET faq == Head(additional) IN
         IF LowerQuestion(faq) \notin existing_questions
             THEN MergeFaqs(Append(faqs, faq), Tail(additional),
                            existing_questions \cup {LowerQuestion(faq)})
             ELSE MergeFaqs(faqs, Tail(additional), existing_questions)

\* Lines 98-105: the description returned by the capability replaces
\* about_brand when it is non-empty.
EnhanceDescription(ctx, enhanced) ==
    IF ctx.about_brand # NoneStr /\ enhanced # ""
        THEN [ctx EXCEPT !.about_brand = enhanced]
        ELSE ctx

\* Lines 107-118.
AddLlmFaqs(ctx, page_fetched, additional) ==
    IF page_fetched /\ Len(ctx.faqs) < 3
        THEN [ctx EXCEPT !.faqs = MergeFaqs(ctx.faqs, additional,
                                    {LowerQuestion(q) : q \in Range(ctx.faqs)})]
        ELSE ctx

\* The note assigned instead of appended.
ReplaceNotes(ctx, note) == [ctx EXCEPT !.extraction_notes = <<note>>]

\* extraction_notes.append(note)
AppendNote(ctx, note) == [ctx EXCEPT !.extraction_notes = Append(@, note)]

\* POST /analyze: analyze_shopify_store calls extract_all_insights.
ReceiveAnalyze ==
    /\ pc = "idle"
    /\ endpoint' = "analyze"
    /\ EnterExtraction("https://shop", "analyze_shopify_store")
    /\ UNCHANGED <<config, standalone, discovery, response>>

\* extract_all_insights returned to analyze_shopify_store.
ReturnToAnalyze ==
    /\ pc = "returned"
    /\ caller = "analyze_shopify_store"
    /\ pc' = "llm"
    /\ UNCHANGED <<config, standalone, request, call, discovery,
                   probe, soup, brand_context, failed_stage, error>>

\* Lines 95-124: the optional enhancement, with its own try/except.
LlmEnhance ==
    /\ pc = "llm"
    /\ IF ~ llm_enabled
          THEN brand_context' = brand_context
          ELSE \E enhanced \in EnhancedInputs :
                 LET described ==
                         EnhanceDescription(brand_context,
                             enhance_brand_description(llm_enabled,
                                 brand_context.about_brand, enhanced)) IN
                 \/ /\ endpoint = "analyze"
                    /\ brand_context' = AppendNote(described, LlmFailedNote)
                 \/ \E page_fetched \in PageFetchedInputs, additional \in FaqAnswerInputs :
                       brand_context' =
                           AppendNote(
                               AddLlmFaqs(described, page_fetched,
                                   structure_faqs(llm_enabled, "Our story", additional)),
                               LlmNote)
    /\ pc' = "db"
    /\ UNCHANGED <<config, standalone, request, call, discovery,
                   probe, soup, failed_stage, error>>

\* Lines 129-137: save_brand_analysis gives an id, gives None, or raises.
SaveToDatabase ==
    /\ pc = "db"
    /\ IF ~ db_available
          THEN brand_context' = brand_context
          ELSE \/ brand_context' = AppendNote(brand_context, SavedNote)
               \/ /\ endpoint = "analyze"
                  /\ brand_context' = brand_context
               \/ /\ endpoint = "analyze"
                  /\ brand_context' = AppendNote(brand_context, SaveFailedNote)
    /\ pc' = "respond"
    /\ UNCHANGED <<config, standalone, request, call, discovery,
                   probe, soup, failed_stage, error>>

\* Lines 139-143.
Respond ==
    /\ pc = "respond"
    /\ endpoint = "analyze"
    /\ response' = [status |-> StatusOk, success |-> TRUE, data |-> brand_context,
                    analysis |-> NoAnalysis]
    /\ pc' = "responded"
    /\ UNCHANGED <<config, standalone, endpoint, call, discovery,
                   probe, soup, brand_context, failed_stage, error>>

\* Every exception mapped to the generic status.
StatusAlwaysInternal(e) == StatusInternalError

\* Lines 145-161: the status of the exception.
StatusOfError(e) ==
    IF e = "ValueError" THEN StatusUnauthorized ELSE StatusInternalError

\* The HTTPException of analyze_shopify_store, sent as the response.
RespondError ==
    /\ pc = "raised"
    /\ caller = "analyze_shopify_store"
    /\ endpoint = "analyze"
    /\ response' = [status |-> StatusOfError(error), success |-> FALSE,
                    data |-> NoContext, analysis |-> NoAnalysis]
    /\ pc' = "responded"
    /\ UNCHANGED <<config, standalone, endpoint, call, discovery,
                   probe, soup, brand_context, failed_stage, error>>

----------------------------------------------------------------------------
(* Competitor discovery: CompetitorService                                 *)

\* str.lower() on the texts of the model.
LowerText(t) ==
    CASE t = "Lipstick" -> "lipstick"
      [] t = "Eyeshadow" -> "eyeshadow"
      [] t = "BrandX" -> "brandx"
      [] t = "Accessories" -> "accessories"
      [] OTHER -> t

\* re.findall(r'\b\w+\b', name.lower()): the lowercased words of the name.
NameWords(name) ==
    CASE name = "Fashion Hub" -> <<"fashion", "hub">>
      [] OTHER -> <<LowerText(name)>>

\* A list element that is no string (the capability returned a JSON array
\* holding a number).
NonStringTerm == "<number>"

\* The directory of find_competitor_urls, in the order of the dict.
Categories == <<"beauty", "fashion", "cosmetics", "clothing", "accessories">>

StoresOfCategory(category) ==
    CASE category = "beauty" ->
            <<"https://colourpop.com", "https://jeffreestarcosmetics.com",
              "https://fentybeauty.com", "https://glossier.com">>
      [] category = "fashion" ->
            <<"https://fashionnova.com", "https://gymshark.com",
              "https://cupshe.com", "https://shein.com">>
      [] category = "cosmetics" ->
            <<"https://colourpop.com", "https://jeffreestarcosmetics.com",
              "https://rarebeauty.com">>
      [] category = "clothing" ->
            <<"https://fashionnova.com", "https://memy.co.in", "https://gymshark.com">>
      [] category = "accessories" ->
            <<"https://pandora.net", "https://danielwellington.com">>

\* The keywords of line 63 that occur inside a lowercased term.
KeywordsIn(term_lower) ==
    CASE term_lower \in Range(Categories) -> {term_lower}
      [] term_lower = "women" -> {"women", "men"}
      [] term_lower = "makeup" -> {"makeup"}
      [] OTHER -> {}

\* any(keyword in term_lower for keyword in [category, 'women', 'men', ...])
TermMatches(term_lower, category) ==
    KeywordsIn(term_lower) \cap {category, "women", "men", "apparel", "makeup"} # {}

\* The inner loop of lines 62-64 for one term: urls[:2] of every category
\* that matches, in directory order.
RECURSIVE ExtendForTerm(_, _, _)
ExtendForTerm(term_lower, i, acc) ==
    IF i > Len(Categories) THEN acc
    ELSE LET urls == StoresOfCategory(Categories[i]) IN
         ExtendForTerm(term_lower, i + 1,
                       IF TermMatches(term_lower, Categories[i])
                           THEN acc \o SubSeq(urls, 1, Min(2, Len(urls)))
                           ELSE acc)

\* Lines 60-64.
RECURSIVE CollectUrls(_, _)
CollectUrls(terms, acc) ==
    IF terms = <<>> THEN acc
    ELSE CollectUrls(Tail(terms), ExtendForTerm(LowerText(Head(terms)), 1, acc))

\* Every list that list(set(...)) may give for a set.
RECURSIVE Orderings(_)
Orderings(S) ==
    IF S = {} THEN {<<>>}
    ELSE UNION {{<<x>> \o order : order \in Orderings(S \ {x})} : x \in S}

\* find_competitor_urls on string terms: list(set(competitor_urls))[:max_results],
\* every list the call may return.
find_competitor_urls(terms, max_results) ==
    {SubSeq(order, 1, Min(max_results, Len(order))) :
        order \in Orderings(Range(CollectUrls(terms, <<>>)))}

\* The candidates left unfiltered.
KeepAllUrls(urls, url) == urls

\* [url for url in competitor_urls if url != primary_brand.website_url]
RECURSIVE WithoutUrl(_, _)
WithoutUrl(urls, url) ==
    IF urls = <<>> THEN <<>>
    ELSE IF Head(urls) = url THEN WithoutUrl(Tail(urls), url)
    ELSE <<Head(urls)>> \o WithoutUrl(Tail(urls), url)

\* The lowercased, non-empty product types of the first ten products.
ProductTypes(catalog) ==
    {LowerText(catalog[i].product_type) :
        i \in {k \in 1..Min(FallbackProducts, Len(catalog)) : catalog[k].product_type # ""}}

\* _generate_fallback_search_terms: every list the call may return (the
\* product types come out of a set).
_generate_fallback_search_terms(primary) ==
    {LET name_words == IF primary.brand_name # NoneStr
                           THEN NameWords(primary.brand_name) ELSE <<>>
         terms == types \o SubSeq(name_words, 1, Min(FallbackNameWords, Len(name_words)))
                        \o <<"fashion", "beauty">>
     IN SubSeq(terms, 1, Min(FallbackTerms, Len(terms))) :
        types \in Orderings(ProductTypes(primary.product_catalog))}

\* What the capability may answer to generate_competitor_search_terms.
LlmTermLists == {<<>>, <<"Accessories">>, <<NonStringTerm>>}

\* The method without its test of self.enabled.
TermsWithoutSwitch(enabled, primary, answer) ==
    IF primary.about_brand = NoneStr THEN <<>> ELSE answer

\* generate_competitor_search_terms: [] when the capability is disabled;
\* building the summary slices about_brand, which raises on None and gives
\* [] through the except clause.
generate_competitor_search_terms(enabled, primary, answer) ==
    IF ~ enabled THEN <<>>
    ELSE IF primary.about_brand = NoneStr THEN <<>>
    ELSE answer

\* What the capability may answer to analyze_competitor_similarity: the
\* text of a number (its value in hundredths: "0.5", "1.5") or a text that
\* float() cannot parse.
LlmScores ==
    {[kind |-> "number", value |-> 50], [kind |-> "number", value |-> 150],
     [kind |-> "text", value |-> 0]}

\* analyze_competitor_similarity: 0.0 when the capability is disabled;
\* float(content); 0.0 when float() or building a summary raised into the
\* except clause.
analyze_competitor_similarity(enabled, brand1, brand2, answer) ==
    IF ~ enabled THEN 0
    ELSE IF brand1.about_brand = NoneStr \/ brand2.about_brand = NoneStr THEN 0
    ELSE IF answer.kind = "number" THEN answer.value
    ELSE 0

SimilarityNote(score) == [text |-> "Similarity score", score |-> score]

\* _create_analysis_summary.
_create_analysis_summary(primary, found, terms) ==
    [kind |-> "summary", terms |-> SubSeq(terms, 1, Min(SummaryTerms, Len(terms))),
     found |-> Len(found)]

FailedSummary == [kind |-> "failed", terms |-> <<>>, found |-> 0]

\* A result whose primary brand carries a similarity note.
AnalysisWithNotedPrimary(primary, found, summary) ==
    [primary_brand |-> AppendNote(primary, SimilarityNote(0)),
     competitors |-> found, analysis_summary |-> summary]

CompetitorAnalysis(primary, found, summary) ==
    [primary_brand |-> primary, competitors |-> found, analysis_summary |-> summary]

----------------------------------------------------------------------------
(* Double-precision arithmetic of get_market_insights                      *)
(*                                                                         *)
(* total_products values are ints; sum(...) / len(...) is the correctly    *)
(* rounded double of the quotient, avg * 1.2 and avg * 0.8 are IEEE 754    *)
(* products rounded to nearest-even, and an int is compared with a double  *)
(* by value.  Naturals beyond the machine integers of the checker are      *)
(* kept as sequences of bits, least significant first.                     *)

\* Bits of the significand of a double (the floats of Python are binary64).
DoublePrecision == 53

RECURSIVE Bits(_)
Bits(n) == IF n = 0 THEN <<>> ELSE <<n % 2>> \o Bits(n \div 2)

Reverse(s) == [i \in 1..Len(s) |-> s[Len(s) + 1 - i]]

\* Without the zero bits at the most significant end.
Trim(b) ==
    LET ones == {i \in 1..Len(b) : b[i] = 1}
    IN IF ones = {} THEN <<>>
       ELSE SubSeq(b, 1, CHOOSE i \in ones : \A k \in ones : k <= i)

ShiftLeft(b, k) == IF b = <<>> THEN <<>> ELSE [i \in 1..k |-> 0] \o b

\* b + 1.
Increment(b) ==
    LET zeros == {i \in 1..Len(b) : b[i] = 0}
    IN IF zeros = {} THEN [i \in 1..Len(b) |-> 0] \o <<1>>
       ELSE LET z == CHOOSE i \in zeros : \A k \in zeros : i <= k
            IN [i \in 1..Len(b) |-> IF i < z THEN 0 ELSE IF i = z THEN 1 ELSE b[i]]

\* Long arithmetic works on limbs of 13 bits (base 8192), least significant
\* first, so that every intermediate value fits a machine integer.
RECURSIVE Pow2(_)
Pow2(k) == IF k = 0 THEN 1 ELSE 2 * Pow2(k - 1)

RECURSIVE LimbOf(_, _, _)
LimbOf(b, j, t) ==
    IF t > 13 THEN 0
    ELSE LET i == 13 * (j - 1) + t
         IN (IF i <= Len(b) THEN b[i] * Pow2(t - 1) ELSE 0) + LimbOf(b, j, t + 1)

ToLimbs(b) == [j \in 1..((Len(b) + 12) \div 13) |-> LimbOf(b, j, 1)]

FromLimbs(l) ==
    Trim([i \in 1..(13 * Len(l)) |->
              (l[(i - 1) \div 13 + 1] \div Pow2((i - 1) % 13)) % 2])

\* The sum of the limb products a[i] * b[k + 1 - i] from i on.
RECURSIVE ColumnSum(_, _, _, _)
ColumnSum(a, b, k, i) ==
    IF i > Len(a) THEN 0
    ELSE (IF k + 1 - i \in 1..Len(b) THEN a[i] * b[k + 1 - i] ELSE 0)
             + ColumnSum(a, b, k, i + 1)

\* The limbs of a * b from position k on, given the carry into position k.
RECURSIVE Columns(_, _, _, _)
Columns(a, b, k, carry) ==
    IF k > Len(a) + Len(b) THEN <<>>
    ELSE LET t == ColumnSum(a, b, k, 1) + carry
         IN <<t % 8192>> \o Columns(a, b, k + 1, t \div 8192)

MulBits(a, b) == FromLimbs(Columns(ToLimbs(a), ToLimbs(b), 1, 0))

\* a > b for naturals without leading zeros.
GreaterBits(a, b) ==
    \/ Len(a) > Len(b)
    \/ /\ Len(a) = Len(b)
       /\ \E i \in 1..Len(a) :
             /\ a[i] > b[i]
             /\ \A j \in (i + 1)..Len(a) : a[j] = b[j]

\* Round to nearest, ties to even: the natural `bits` (followed by a
\* non-zero fraction when `sticky`) as m * 2^e with m of at most
\* DoublePrecision bits.
RoundToDouble(bits, sticky) ==
    IF Len(bits) <= DoublePrecision THEN [m |-> bits, e |-> 0]
    ELSE LET drop == Len(bits) - DoublePrecision
             kept == SubSeq(bits, drop + 1, Len(bits))
             below == sticky \/ \E i \in 1..(drop - 1) : bits[i] = 1
             up == bits[drop] = 1 /\ (below \/ kept[1] = 1)
             inc == IF up THEN Increment(kept) ELSE kept
         IN IF Len(inc) > DoublePrecision
                THEN [m |-> Tail(inc), e |-> drop + 1]
                ELSE [m |-> inc, e |-> drop]

\* Long division of a natural (limbs, most significant first) by a small n.
RECURSIVE LongDivide(_, _, _, _)
LongDivide(num, n, r, q) ==
    IF num = <<>> THEN [q |-> q, r |-> r]
    ELSE LET r2 == 8192 * r + Head(num)
         IN LongDivide(Tail(num), n, r2 % n, <<r2 \div n>> \o q)

\* s / n for ints s >= 0, n > 0: the double nearest to the quotient, from
\* the quotient of s * 2^65 by n and whether a remainder is left.
DivideInts(s, n) ==
    LET d == LongDivide(Reverse(ToLimbs(Bits(s))) \o <<0, 0, 0, 0, 0>>, n, 0, <<>>)
        rounded == RoundToDouble(FromLimbs(d.q), d.r # 0)
    IN [m |-> rounded.m, e |-> rounded.e - 65]

\* x * y for doubles.
MultiplyDoubles(x, y) ==
    LET rounded == RoundToDouble(MulBits(x.m, y.m), FALSE)
    IN [m |-> rounded.m, e |-> rounded.e + x.e + y.e]

RECURSIVE Repeat(_, _)
Repeat(s, k) == IF k = 0 THEN <<>> ELSE s \o Repeat(s, k - 1)

\* The literal 1.2: 0x13333333333333 * 2^-52.
Double1_2 ==
    [m |-> Reverse(<<1>> \o Repeat(<<0, 0, 1, 1>>, 13)), e |-> -52]

\* The literal 0.8: 0x1999999999999A * 2^-53.
Double0_8 ==
    [m |-> Reverse(<<1>> \o Repeat(<<1, 0, 0, 1>>, 12) \o <<1, 0, 1, 0>>), e |-> -53]

\* p > x and p < x for an int p >= 0 and a double x >= 0.
IntGreater(p, x) ==
    IF x.e < 0 THEN GreaterBits(ShiftLeft(Bits(p), 0 - x.e), x.m)
    ELSE GreaterBits(Bits(p), ShiftLeft(x.m, x.e))

IntLess(p, x) ==
    IF x.e < 0 THEN GreaterBits(x.m, ShiftLeft(Bits(p), 0 - x.e))
    ELSE GreaterBits(ShiftLeft(x.m, x.e), Bits(p))

RECURSIVE Sum(_)
Sum(s) == IF s = <<>> THEN 0 ELSE Head(s) + Sum(Tail(s))

\* get_market_insights, lines 186-200: market_position for the primary
\* brand's total_products and the competitors' total_products.
market_position(primary_products, competitor_products) ==
    IF competitor_products = <<>> THEN "unknown"
    ELSE LET avg_competitor_products ==
                 DivideInts(Sum(competitor_products), Len(competitor_products))
         IN IF IntGreater(primary_products,
                          MultiplyDoubles(avg_competitor_products, Double1_2))
                THEN "large_catalog"
            ELSE IF IntLess(primary_products,
                            MultiplyDoubles(avg_competitor_products, Double0_8))
                THEN "focused_catalog"
            ELSE "average_catalog"

----------------------------------------------------------------------------
(* POST /analyze-with-competitors                                          *)

\* POST /analyze-with-competitors: the handler first runs analyze_shopify_store.
ReceiveAnalyzeWithCompetitors ==
    /\ pc = "idle"
    /\ endpoint' = "analyze_with_competitors"
    /\ EnterExtraction("https://colourpop.com", "analyze_shopify_store")
    /\ UNCHANGED <<config, standalone, discovery, response>>

\* main.py lines 177-183 and 201-206: the HTTPException of
\* analyze_shopify_store is caught by the handler's except clause.
PrimaryFailed ==
    /\ pc = "raised"
    /\ caller = "analyze_shopify_store"
    /\ endpoint = "analyze_with_competitors"
    /\ response' = [status |-> StatusInternalError, success |-> FALSE,
                    data |-> NoContext, analysis |-> NoAnalysis]
    /\ pc' = "responded"
    /\ UNCHANGED <<config, standalone, endpoint, call, discovery,
                   probe, soup, brand_context, failed_stage, error>>

\* main.py lines 177-186: analyze_competitors is entered with
\* primary_analysis.data.
ReturnPrimary ==
    /\ pc = "respond"
    /\ endpoint = "analyze_with_competitors"
    /\ primary_brand' = brand_context
    /\ pc' = "search_terms"
    /\ UNCHANGED <<config, standalone, request, call, search_terms, competitor_urls,
                   competitors, analysis, probe, soup, brand_context, failed_stage,
                   error>>

\* competitor_service.py lines 76-84.
GenerateSearchTerms ==
    /\ pc = "search_terms"
    /\ \E answer \in IF llm_enabled THEN LlmTermLists ELSE {<<>>} :
          LET generated ==
                  generate_competitor_search_terms(llm_enabled, primary_brand, answer) IN
          IF generated # <<>>
              THEN search_terms' = generated
              ELSE \E fallback \in _generate_fallback_search_terms(primary_brand) :
                      search_terms' = fallback
    /\ pc' = "find_competitor_urls"
    /\ UNCHANGED <<config, standalone, request, call, primary_brand, competitor_urls,
                   competitors, analysis, probe, soup, brand_context, failed_stage,
                   error>>

\* Lines 87-93: the candidates; term.lower() on a term that is no string
\* raises into the except clause of line 124.
FindCompetitorUrls ==
    /\ pc = "find_competitor_urls"
    /\ IF NonStringTerm \in Range(search_terms)
          THEN /\ analysis' = CompetitorAnalysis(primary_brand, <<>>, FailedSummary)
               /\ pc' = "analysed"
               /\ UNCHANGED <<competitor_urls, competitors>>
          ELSE /\ \E urls \in find_competitor_urls(search_terms, MaxCompetitors * 2) :
                     LET kept == WithoutUrl(urls, primary_brand.website_url) IN
                     competitor_urls' = SubSeq(kept, 1, Min(MaxCompetitors, Len(kept)))
               /\ competitors' = <<>>
               /\ pc' = "next_competitor"
               /\ UNCHANGED analysis
    /\ UNCHANGED <<config, standalone, request, call, primary_brand, search_terms,
                   probe, soup, brand_context, failed_stage, error>>

\* Line 96: the loop calls extract_all_insights on the next candidate.
NextCompetitor ==
    /\ pc = "next_competitor"
    /\ competitor_urls # <<>>
    /\ EnterExtraction(Head(competitor_urls), "analyze_competitors")
    /\ competitor_urls' = Tail(competitor_urls)
    /\ UNCHANGED <<config, standalone, request, primary_brand, search_terms,
                   competitors, analysis>>

\* Lines 98-106: the similarity note when the capability is enabled, then
\* the candidate joins the competitors.
CompetitorAnalysed ==
    /\ pc = "returned"
    /\ caller = "analyze_competitors"
    /\ IF llm_enabled
          THEN \E answer \in LlmScores :
                  competitors' = Append(competitors,
                      AppendNote(brand_context,
                          SimilarityNote(analyze_competitor_similarity(
                              llm_enabled, primary_brand, brand_context, answer))))
          ELSE competitors' = Append(competitors, brand_context)
    /\ pc' = "sleep"
    /\ UNCHANGED <<config, standalone, request, call, primary_brand, search_terms,
                   competitor_urls, analysis, probe, soup, brand_context,
                   failed_stage, error>>

\* Line 109: time.sleep(2).
Sleep ==
    /\ pc = "sleep"
    /\ pc' = "next_competitor"
    /\ UNCHANGED <<config, standalone, request, call, discovery,
                   probe, soup, brand_context, failed_stage, error>>

\* The except clause leaves the loop: no candidate remains.
AbortBatch(urls) == <<>>

\* Line 113: continue, the loop goes on with the remaining candidates.
ContinueBatch(urls) == urls

\* Lines 111-113: the candidate's exception is logged and the loop continues.
CompetitorSkipped ==
    /\ pc = "raised"
    /\ caller = "analyze_competitors"
    /\ pc' = "next_competitor"
    /\ error' = "none"
    /\ competitor_urls' = ContinueBatch(competitor_urls)
    /\ UNCHANGED <<config, standalone, request, call, primary_brand, search_terms,
                   competitors, analysis, probe, soup, brand_context, failed_stage>>

\* Lines 115-122.
Summarize ==
    /\ pc = "next_competitor"
    /\ competitor_urls = <<>>
    /\ analysis' = CompetitorAnalysis(primary_brand, competitors,
                       _create_analysis_summary(primary_brand, competitors, search_terms))
    /\ pc' = "analysed"
    /\ UNCHANGED <<config, standalone, request, call, primary_brand, search_terms,
                   competitor_urls, competitors, probe, soup, brand_context,
                   failed_stage, error>>

\* main.py lines 190-199: the competitors are saved when the database is
\* available, and the CompetitorAnalysis is the response body.
RespondCompetitors ==
    /\ pc = "analysed"
    /\ response' = [status |-> StatusOk, success |-> TRUE,
                    data |-> analysis.primary_brand, analysis |-> analysis]
    /\ pc' = "responded"
    /\ UNCHANGED <<config, standalone, endpoint, call, discovery,
                   probe, soup, brand_context, failed_stage, error>>

----------------------------------------------------------------------------
(* The methods of LLMService called on their own                           *)

CapabilityMethods ==
    {"structure_faqs", "extract_contact_info", "enhance_brand_description",
     "extract_social_handles", "analyze_competitor_similarity",
     "generate_competitor_search_terms"}

RawTexts == {NoneStr, "", "Our story"}

\* What the capability may answer to the method.
AnswersOf(method) ==
    CASE method = "structure_faqs" -> LlmFaqAnswers
      [] method = "extract_contact_info" -> LlmContactAnswers
      [] method = "enhance_brand_description" -> {"", "Clean story"}
      [] method = "extract_social_handles" -> LlmSocialAnswers
      [] method = "analyze_competitor_similarity" -> LlmScores
      [] method = "generate_competitor_search_terms" -> LlmTermLists

\* The value the method returns; the two brand methods read the text as
\* the about_brand of the brand data.
CallMethod(method, enabled, raw_text, answer) ==
    CASE method = "structure_faqs" -> structure_faqs(enabled, raw_text, answer)
      [] method = "extract_contact_info" -> extract_contact_info(enabled, raw_text, answer)
      [] method = "enhance_brand_description" ->
            enhance_brand_description(enabled, raw_text, answer)
      [] method = "extract_social_handles" ->
            extract_social_handles(enabled, raw_text, answer)
      [] method = "analyze_competitor_similarity" ->
            analyze_competitor_similarity(enabled, [about_brand |-> raw_text],
                                          [about_brand |-> "Our story"], answer)
      [] method = "generate_competitor_search_terms" ->
            generate_competitor_search_terms(enabled, [about_brand |-> raw_text], answer)

\* A method of the service's LLMService instance is called.
CallCapability ==
    /\ pc = "idle"
    /\ \E method \in CapabilityMethods, raw_text \in RawTexts :
          \E answer \in AnswersOf(method) :
             /\ arg' = [method |-> method, raw_text |-> raw_text]
             /\ ret' = [value |-> CallMethod(method, llm_enabled, raw_text, answer),
                        contacted |-> ContactsService(method, llm_enabled, raw_text)]
    /\ pc' = "capability_out"
    /\ UNCHANGED <<config, request, call, discovery, probe, soup, brand_context,
                   failed_stage, error>>

----------------------------------------------------------------------------
(* The service                                                             *)

Init ==
    /\ pc = "idle"
    /\ endpoint = "none"
    /\ caller = "none"
    /\ website_url = ""
    /\ probe = NoProbe
    /\ soup = NoSoup
    /\ brand_context = NoContext
    /\ failed_stage = "none"
    /\ error = "none"
    /\ llm_enabled \in BOOLEAN
    /\ db_available \in BOOLEAN
    /\ response = NoResponse
    /\ primary_brand = NoContext
    /\ search_terms = <<>>
    /\ competitor_urls = <<>>
    /\ competitors = <<>>
    /\ analysis = NoAnalysis
    /\ arg = <<>>
    /\ ret = <<>>

Next ==
    \/ ReceiveAnalyze
    \/ ReceiveAnalyzeWithCompetitors
    \/ ProbeStore
    \/ CheckStore
    \/ GetHomePage
    \/ ExtractBrandInfo
    \/ ExtractProducts
    \/ ExtractHeroProducts
    \/ ExtractSocialHandles
    \/ ExtractContactInfo
    \/ ExtractFaqs
    \/ ExtractPolicies
    \/ ExtractImportantLinks
    \/ ExtractMetadata
    \/ ReturnToAnalyze
    \/ LlmEnhance
    \/ SaveToDatabase
    \/ Respond
    \/ RespondError
    \/ PrimaryFailed
    \/ ReturnPrimary
    \/ GenerateSearchTerms
    \/ FindCompetitorUrls
    \/ NextCompetitor
    \/ CompetitorAnalysed
    \/ Sleep
    \/ CompetitorSkipped
    \/ Summarize
    \/ RespondCompetitors
    \/ CallCapability

Spec == Init /\ [][Next]_vars

----------------------------------------------------------------------------
(* Hero resolution and policy resolution on their own inputs               *)

CatalogHandles == {"a", "b", "c"}

\* The Product made from a well-formed feed entry with the handle.
CatalogProduct(h) == Product([handle |-> h, kind |-> "ok"])

Catalogs == SeqsUpTo({CatalogProduct(h) : h \in CatalogHandles}, MaxCatalog)

Idle ==
    /\ endpoint = "none"
    /\ caller = "none"
    /\ website_url = ""
    /\ probe = NoProbe
    /\ soup = NoSoup
    /\ brand_context = NoContext
    /\ failed_stage = "none"
    /\ error = "none"
    /\ llm_enabled = FALSE
    /\ db_available = FALSE
    /\ response = NoResponse
    /\ primary_brand = NoContext
    /\ search_terms = <<>>
    /\ competitor_urls = <<>>
    /\ competitors = <<>>
    /\ analysis = NoAnalysis

InitHero ==
    /\ Idle
    /\ pc = "hero_in"
    /\ arg \in [catalog : Catalogs, anchors : SUBSET ProductAnchors]
    /\ ret = <<>>

\* get_hero_products on the anchors, then _get_products_by_handles.
ResolveHero ==
    /\ pc = "hero_in"
    /\ \E handles \in get_hero_products(arg.anchors) :
          ret' = _get_products_by_handles(arg.catalog, handles)
    /\ pc' = "hero_out"
    /\ UNCHANGED <<config, request, call, discovery, probe, soup, brand_context,
                   failed_stage, error, arg>>

SpecHero == InitHero /\ [][ResolveHero]_vars

InitPolicy ==
    /\ Idle
    /\ pc = "policy_in"
    /\ arg \in [PolicyCandidates -> PolicyPages]
    /\ ret = <<>>

\* The candidate loop of extract_policies for one category.
ResolveCategory ==
    /\ pc = "policy_in"
    /\ ret' = ResolvePolicy(arg, 1)
    /\ pc' = "policy_out"
    /\ UNCHANGED <<config, request, call, discovery, probe, soup, brand_context,
                   failed_stage, error, arg>>

SpecPolicy == InitPolicy /\ [][ResolveCategory]_vars

----------------------------------------------------------------------------
(* The candidate loop of extract_policies, one probe at a time             *)

\* The loop goes on to the next candidate whatever the probe gave.
BreaksNever(accepted) == FALSE

\* Line 222: break, reached only inside the acceptance branch.
BreaksAfter(accepted) == accepted

\* Lines 217-221: the policy stored for the candidate of index i.
AcceptedPolicy(page, i) ==
    [present |-> TRUE, length |-> Min(page.length, PolicyMaxLength), candidate |-> i]

InitPolicyLoop ==
    /\ Idle
    /\ pc = "policy_loop"
    /\ arg \in [PolicyCandidates -> PolicyPages]
    /\ ret = [fetched |-> <<>>, policy |-> NoPolicy]

\* One iteration of the loop of line 206: the next candidate path is
\* fetched and, when its content is substantial, stored as the policy.
ProbeCandidate ==
    /\ pc = "policy_loop"
    /\ Len(ret.fetched) < Len(arg)
    /\ LET i == Len(ret.fetched) + 1
           accepted == IsSubstantial(arg[i])
       IN /\ ret' = [fetched |-> Append(ret.fetched, i),
                     policy |-> IF accepted THEN AcceptedPolicy(arg[i], i)
                                ELSE ret.policy]
          /\ pc' = IF BreaksAfter(accepted) THEN "loop_done" ELSE "policy_loop"
    /\ UNCHANGED <<config, request, call, discovery, probe, soup, brand_context,
                   failed_stage, error, arg>>

\* The loop ends with no candidate left.
CandidatesExhausted ==
    /\ pc = "policy_loop"
    /\ Len(ret.fetched) = Len(arg)
    /\ pc' = "loop_done"
    /\ UNCHANGED <<config, request, call, discovery, probe, soup, brand_context,
                   failed_stage, error, arg, ret>>

NextPolicyLoop == ProbeCandidate \/ CandidatesExhausted

SpecPolicyLoop == InitPolicyLoop /\ [][NextPolicyLoop]_vars

----------------------------------------------------------------------------
(* The store check on its own inputs                                       *)

InitStore ==
    /\ Idle
    /\ pc = "store_in"
    /\ arg \in [feed : FeedResponses, root : RootPages]
    /\ ret = <<>>

\* is_shopify_store on a site: what its feed answers and what its root
\* document shows.
DetectStore ==
    /\ pc = "store_in"
    /\ ret' = is_shopify_store(arg.feed.kind, arg.root)
    /\ pc' = "store_out"
    /\ UNCHANGED <<config, request, call, discovery, probe, soup, brand_context,
                   failed_stage, error, arg>>

SpecStore == InitStore /\ [][DetectStore]_vars

----------------------------------------------------------------------------
(* The requests of one call of extract_all_insights, in the order sent     *)

FeedUrl == [path |-> "/products.json", category |-> 0, candidate |-> 0]
RootUrl == [path |-> "/", category |-> 0, candidate |-> 0]
PolicyUrl(category, candidate) ==
    [path |-> "policy", category |-> category, candidate |-> candidate]

\* One request of the session: its URL and whether it failed.
Requested(url, failed) == [url |-> url, failed |-> failed]

InitRequests ==
    /\ Idle
    /\ pc = "detect_feed"
    /\ arg = [category |-> 1, candidate |-> 1]
    /\ ret = <<>>

\* scraper.py line 66: is_shopify_store asks for the feed.
DetectFeed ==
    /\ pc = "detect_feed"
    /\ \E feed \in FeedResponses :
          /\ ret' = Append(ret, Requested(FeedUrl, feed.kind = "err"))
          /\ probe' = [feed |-> feed.kind, root |-> "unfetched"]
          /\ pc' = IF FeedHasProductsKey(feed.kind) THEN "fetch_home" ELSE "detect_root"
    /\ UNCHANGED <<config, request, call, discovery, soup, brand_context,
                   failed_stage, error, arg>>

\* scraper.py lines 71-83: the root page is fetched for the marker scan;
\* extract_all_insights raises when the check is false.
DetectRoot ==
    /\ pc = "detect_root"
    /\ \E root \in RootPages :
          /\ ret' = Append(ret, Requested(RootUrl, root = "err"))
          /\ probe' = [probe EXCEPT !.root = root]
          /\ pc' = IF is_shopify_store(probe.feed, root) THEN "fetch_home"
                   ELSE "requests_done"
    /\ UNCHANGED <<config, request, call, discovery, soup, brand_context,
                   failed_stage, error, arg>>

\* insights_extractor.py lines 31-33: the homepage.
FetchHome ==
    /\ pc = "fetch_home"
    /\ \E fetched \in BOOLEAN :
          /\ ret' = Append(ret, Requested(RootUrl, ~ fetched))
          /\ pc' = IF fetched THEN "fetch_catalog" ELSE "requests_done"
    /\ UNCHANGED <<config, request, call, discovery, probe, soup, brand_context,
                   failed_stage, error, arg>>

\* insights_extractor.py line 104: _extract_products asks for the feed; a
\* stage that raises before extract_policies ends the requests.
FetchCatalog ==
    /\ pc = "fetch_catalog"
    /\ \E feed \in FeedResponses, raises \in BOOLEAN :
          /\ ret' = Append(ret, Requested(FeedUrl, feed.kind = "err"))
          /\ pc' = IF _extract_products(feed).raised \/ raises THEN "requests_done"
                   ELSE "fetch_policy"
    /\ UNCHANGED <<config, request, call, discovery, probe, soup, brand_context,
                   failed_stage, error, arg>>

\* scraper.py lines 205-225: the next candidate path of the current
\* category; the category is left on acceptance or after its last path.
FetchPolicy ==
    /\ pc = "fetch_policy"
    /\ arg.category <= Min(MaxProbedCategories, Len(PolicyNames))
    /\ \E page \in PolicyPages :
          /\ ret' = Append(ret, Requested(PolicyUrl(arg.category, arg.candidate),
                                          page.kind = "err"))
          /\ arg' = IF BreaksAfter(IsSubstantial(page))
                        \/ arg.candidate + 1 \notin PolicyCandidates
                        THEN [category |-> arg.category + 1, candidate |-> 1]
                        ELSE [arg EXCEPT !.candidate = @ + 1]
    /\ UNCHANGED <<config, request, call, discovery, probe, soup, brand_context,
                   failed_stage, error, pc>>

\* No category is left to probe.
PoliciesFetched ==
    /\ pc = "fetch_policy"
    /\ arg.category > Min(MaxProbedCategories, Len(PolicyNames))
    /\ pc' = "requests_done"
    /\ UNCHANGED <<config, request, call, discovery, probe, soup, brand_context,
                   failed_stage, error, arg, ret>>

NextRequests ==
    DetectFeed \/ DetectRoot \/ FetchHome \/ FetchCatalog \/ FetchPolicy
        \/ PoliciesFetched

SpecRequests == InitRequests /\ [][NextRequests]_vars

----------------------------------------------------------------------------
(* Catalog resolution on its own inputs                                    *)

InitCatalog ==
    /\ Idle
    /\ pc = "catalog_in"
    /\ arg \in {[kind |-> k, products |-> <<>>] : k \in {"err", "nokey", "null"}}
              \cup {[kind |-> "list", products |-> p] :
                        p \in SeqsUpTo(FeedEntries, MaxEntries)}
    /\ ret = <<>>

\* _extract_products on what GET /products.json gave.
ResolveCatalog ==
    /\ pc = "catalog_in"
    /\ ret' = _extract_products(arg)
    /\ pc' = "catalog_out"
    /\ UNCHANGED <<config, request, call, discovery, probe, soup, brand_context,
                   failed_stage, error, arg>>

SpecCatalog == InitCatalog /\ [][ResolveCatalog]_vars

----------------------------------------------------------------------------
(* Candidate lookup on its own inputs                                      *)

SearchTerms == {"beauty", "Accessories", "lipstick", "women"}

PrimaryUrls == {"https://colourpop.com", "https://shop"}

InitCandidates ==
    /\ Idle
    /\ pc = "candidates_in"
    /\ arg \in [terms : SeqsUpTo(SearchTerms, MaxTerms), max_competitors : 1..2,
                 primary_url : PrimaryUrls]
    /\ ret = <<>>

\* competitor_service.py lines 86-93: the lookup with max_competitors * 2,
\* the primary's own URL filtered out, and the candidates of the loop.
ResolveCandidates ==
    /\ pc = "candidates_in"
    /\ \E urls \in find_competitor_urls(arg.terms, arg.max_competitors * 2) :
          LET kept == WithoutUrl(urls, arg.primary_url) IN
          ret' = [found |-> urls,
                  analysed |-> SubSeq(kept, 1, Min(arg.max_competitors, Len(kept)))]
    /\ pc' = "candidates_out"
    /\ UNCHANGED <<config, request, call, discovery, probe, soup, brand_context,
                   failed_stage, error, arg>>

SpecCandidates == InitCandidates /\ [][ResolveCandidates]_vars

----------------------------------------------------------------------------
(* save_brand_analysis: the brand row, its child rows and the commits      *)
(*                                                                         *)
(* A BrandContext is known by its website_url and by a version standing    *)
(* for its content; a brand row carries the version its fields were set    *)
(* from, a child row the version of the BrandContext it was built from.    *)

SavedUrls == {"https://shop", "https://colourpop.com"}

SavedContexts == [website_url : SavedUrls, version : 1..2]

EmptyTables == [brands |-> {}, children |-> {}]

\* session.query(BrandAnalysis).filter(website_url == ...).first()
ExistingRows(tables, url) == {b \in tables.brands : b.website_url = url}

\* The child rows left as they are.
KeepChildren(children, brand_id) == children

\* Lines 240-246: query(...).filter(brand_id == brand_id).delete() on
\* every child table.
DeleteChildren(children, brand_id) == {c \in children : c.brand_id # brand_id}

InitDatabase ==
    /\ Idle
    /\ pc = "db_idle"
    /\ arg = [ctx |-> [website_url |-> "", version |-> 0], existing |-> FALSE,
              brand_id |-> 0]
    /\ ret = [committed |-> EmptyTables, session |-> EmptyTables,
              before |-> EmptyTables, result |-> "none", next_id |-> 1,
              saved |-> [u \in SavedUrls |-> 0], all_saved |-> TRUE, calls |-> 0]

\* Lines 205-218: a session is opened and the brand row of the URL is
\* looked up.
BeginSave ==
    /\ pc = "db_idle"
    /\ ret.calls < MaxSaves
    /\ \E ctx \in SavedContexts :
          LET existing == ExistingRows(ret.committed, ctx.website_url) IN
          arg' = [ctx |-> ctx, existing |-> existing # {},
                  brand_id |-> IF existing # {} THEN (CHOOSE b \in existing : TRUE).id
                               ELSE ret.next_id]
    /\ ret' = [ret EXCEPT !.session = ret.committed, !.before = ret.committed,
                          !.result = "pending", !.calls = @ + 1]
    /\ pc' = "db_fields"
    /\ UNCHANGED <<config, request, call, discovery, probe, soup, brand_context,
                   failed_stage, error>>

\* Lines 220-236: the brand fields are set on the existing or on a new
\* row, and committed.
WriteBrand ==
    /\ pc = "db_fields"
    /\ LET row == [id |-> arg.brand_id, website_url |-> arg.ctx.website_url,
                   fields |-> arg.ctx.version]
           brands == {b \in ret.session.brands : b.id # arg.brand_id} \cup {row}
           written == [ret.session EXCEPT !.brands = brands]
       IN ret' = [ret EXCEPT !.session = written, !.committed = written,
                             !.next_id = IF arg.existing THEN @ ELSE @ + 1]
    /\ pc' = IF arg.existing THEN "db_clear" ELSE "db_children"
    /\ UNCHANGED <<config, request, call, discovery, probe, soup, brand_context,
                   failed_stage, error, arg>>

\* Lines 239-247: the child rows of an existing brand are deleted, and the
\* deletion is committed.
ClearChildren ==
    /\ pc = "db_clear"
    /\ LET cleared == [ret.session EXCEPT
                          !.children = DeleteChildren(@, arg.brand_id)]
       IN ret' = [ret EXCEPT !.session = cleared, !.committed = cleared]
    /\ pc' = "db_children"
    /\ UNCHANGED <<config, request, call, discovery, probe, soup, brand_context,
                   failed_stage, error, arg>>

\* Lines 250-334: the child rows of the BrandContext are added to the
\* session.
AddChildren ==
    /\ pc = "db_children"
    /\ ret' = [ret EXCEPT !.session.children =
                   @ \cup {[brand_id |-> arg.brand_id, version |-> arg.ctx.version]}]
    /\ pc' = "db_commit"
    /\ UNCHANGED <<config, request, call, discovery, probe, soup, brand_context,
                   failed_stage, error, arg>>

\* Lines 336-338: the last commit; the identifier is returned.
CommitChildren ==
    /\ pc = "db_commit"
    /\ ret' = [ret EXCEPT !.committed = ret.session, !.result = "saved",
                          !.saved[arg.ctx.website_url] = arg.ctx.version]
    /\ pc' = "db_idle"
    /\ UNCHANGED <<config, request, call, discovery, probe, soup, brand_context,
                   failed_stage, error, arg>>

\* Lines 340-343: a statement of the try block raised; what the session
\* has not committed is rolled back and None is returned.
SaveFails ==
    /\ pc \in {"db_fields", "db_clear", "db_children", "db_commit"}
    /\ ret' = [ret EXCEPT !.session = ret.committed, !.result = "failed",
                          !.all_saved = FALSE]
    /\ pc' = "db_idle"
    /\ UNCHANGED <<config, request, call, discovery, probe, soup, brand_context,
                   failed_stage, error, arg>>

NextDatabase ==
    BeginSave \/ WriteBrand \/ ClearChildren \/ AddChildren \/ CommitChildren
        \/ SaveFails

SpecDatabase == InitDatabase /\ [][NextDatabase]_vars

----------------------------------------------------------------------------
(* The fallback search terms on their own inputs                           *)

\* Brand names extract_brand_info may have found (None when there is none).
BrandNames == {NoneStr, "BrandX", "Fashion Hub"}

InitFallback ==
    /\ Idle
    /\ pc = "fallback_in"
    /\ arg \in {[BrandContext("https://shop") EXCEPT
                     !.brand_name = name,
                     !.product_catalog = catalog,
                     !.total_products = Len(catalog)] :
                 name \in BrandNames, catalog \in Catalogs}
    /\ ret = <<>>

\* _generate_fallback_search_terms on a primary brand.
GenerateFallback ==
    /\ pc = "fallback_in"
    /\ \E terms \in _generate_fallback_search_terms(arg) : ret' = terms
    /\ pc' = "fallback_out"
    /\ UNCHANGED <<config, request, call, discovery, probe, soup, brand_context,
                   failed_stage, error, arg>>

SpecFallback == InitFallback /\ [][GenerateFallback]_vars

----------------------------------------------------------------------------
(* The market position on its own inputs                                   *)

\* total_products of the primary brand and of a competitor.
PrimaryTotals == {14, 79, 80, 81, 119, 120, 121}

CompetitorTotals == {10, 12, 13, 100}

InitMarket ==
    /\ Idle
    /\ pc = "market_in"
    /\ arg \in [primary_products : PrimaryTotals,
                competitor_products : SeqsUpTo(CompetitorTotals, MaxCompetitors)]
    /\ ret = <<>>

\* get_market_insights on a primary brand and its competitors.
ClassifyMarket ==
    /\ pc = "market_in"
    /\ ret' = market_position(arg.primary_products, arg.competitor_products)
    /\ pc' = "market_out"
    /\ UNCHANGED <<config, request, call, discovery, probe, soup, brand_context,
                   failed_stage, error, arg>>

SpecMarket == InitMarket /\ [][ClassifyMarket]_vars

----------------------------------------------------------------------------
(* Properties                                                              *)

\* Every BrandContext the service holds: the one under construction, the
\* one given to analyze_competitors, the competitors collected so far, and
\* those of the CompetitorAnalysis and of the response.
HeldContexts ==
    {brand_context, primary_brand, response.data, analysis.primary_brand,
     response.analysis.primary_brand}
        \cup Range(competitors) \cup Range(analysis.competitors)
        \cup Range(response.analysis.competitors)

\* C1: every BrandContext held or returned by extract_all_insights, carried
\* by the /analyze response or placed in a CompetitorAnalysis has
\* total_products equal to the length of product_catalog, whether extraction
\* succeeded or a stage failed.
C1_TotalProductsIsCatalogLength ==
    \A ctx \in HeldContexts : ctx.total_products = Len(ctx.product_catalog)

C1_Witness ==
    /\ pc = "responded"
    /\ response.status = StatusOk
    /\ response.analysis.primary_brand.total_products = 1
    /\ \E c \in Range(response.analysis.competitors) :
          ~ c.extraction_success /\ c.total_products = 0
    /\ \E c \in Range(response.analysis.competitors) :
          c.extraction_success /\ c.total_products = 1

HeroHandlesInCatalog(ctx) ==
    \A i \in 1..Len(ctx.hero_products) :
        \E j \in 1..Len(ctx.product_catalog) :
            ctx.product_catalog[j].handle = ctx.hero_products[i].handle

\* C2: in every BrandContext, each hero product carries the handle of some
\* catalog product, for every feed, every set of homepage anchors and every
\* stage at which extraction may have failed.
C2_HeroHandlesAreCatalogHandles ==
    \A ctx \in HeldContexts : HeroHandlesInCatalog(ctx)

C2_Witness ==
    /\ pc = "returned"
    /\ failed_stage = "social"
    /\ brand_context.hero_products # <<>>
    /\ \E l \in soup.product_links : l.handle = "z"

NotesKeptAsPrefix ==
    /\ pc' # "is_shopify_store" =>
          IsPrefix(brand_context.extraction_notes, brand_context'.extraction_notes)
    /\ IsPrefix(primary_brand.extraction_notes, primary_brand'.extraction_notes)
    /\ \A i \in 1..Len(competitors) :
          /\ i <= Len(competitors')
          /\ IsPrefix(competitors[i].extraction_notes,
                      competitors'[i].extraction_notes)
    /\ (pc = "returned" /\ caller = "analyze_competitors") =>
          /\ Len(competitors') = Len(competitors) + 1
          /\ IsPrefix(brand_context.extraction_notes,
                      Last(competitors').extraction_notes)

\* C3: extraction_notes is append-only: every step that works on a
\* BrandContext (the stages of extract_all_insights, the enhancement and
\* persistence steps of /analyze, the similarity step of analyze_competitors)
\* leaves the notes it had as a prefix of the notes it has afterwards; only
\* a new call of extract_all_insights begins a new context.
C3_NotesAppendOnly == [][NotesKeptAsPrefix]_vars

C3_Witness ==
    /\ pc = "responded"
    /\ response.analysis.primary_brand.extraction_notes =
           <<SuccessNote, LlmNote, SavedNote>>
    /\ \E c \in Range(response.analysis.competitors) :
          c.extraction_notes = <<PartialNote, SimilarityNote(50)>>

NonStoreStep ==
    /\ (pc = "store_checked" /\ probe.feed \in {"err", "nokey"}
                             /\ probe.root \in {"err", "plain"})
          => (/\ ~ is_shopify_store(probe.feed, probe.root)
              /\ pc' = "raised"
              /\ error' = "ValueError"
              /\ brand_context' = NoContext)
    /\ (pc = "raised" /\ error = "ValueError")
          => (/\ response'.data = NoContext
              /\ ~ response'.success
              /\ competitors' = competitors)

\* C4: when the feed probe gives no product list and the root page has no
\* platform marker or cannot be fetched, is_shopify_store is false and
\* extract_all_insights raises ValueError with no BrandContext; what follows
\* the error carries no data and adds no competitor.
C4_NonStoreRaisesValueError == [][NonStoreStep]_vars

C4_Witness ==
    /\ pc = "raised"
    /\ error = "ValueError"
    /\ probe = [feed |-> "err", root |-> "plain"]
    /\ brand_context = NoContext

StageStep ==
    pc \in StagePcs =>
        /\ pc' \in StagePcs \cup {"returned"}
        /\ error' = "none"
        /\ failed_stage' # "none" =>
              (/\ pc' = "returned"
               /\ ~ brand_context'.extraction_success
               /\ brand_context'.extraction_notes =
                      Append(brand_context.extraction_notes, PartialNote))

\* C5: past the homepage fetch, extract_all_insights never raises: each
\* stage leads to the next stage or to the return, and a stage that raised
\* leads to the return of a context with extraction_success false and the
\* partial-failure note appended.
C5_StageFailureIsCaught == [][StageStep]_vars

C5_Witness ==
    /\ pc = "returned"
    /\ failed_stage = "contact"
    /\ ~ brand_context.extraction_success
    /\ Last(brand_context.extraction_notes) = PartialNote

\* C6: after a failure in one stage, the fields of the other stages are
\* populated from the homepage as they would have been without it.
C6_SiblingStagesStillRun ==
    (pc = "returned" /\ failed_stage # "none") =>
        /\ failed_stage # "social" =>
              brand_context.social_handles =
                  extract_social_links(soup.social_links, <<>>)
        /\ failed_stage # "contact" => brand_context.contact_info = soup.emails
        /\ failed_stage # "faqs" => brand_context.faqs = extract_faqs(soup.faqs)
        /\ failed_stage # "links" => brand_context.important_links = soup.nav_links
        /\ brand_context.currency = soup.currency

\* C7: /analyze answers 401 to the precondition error, 500 to the fetch
\* error, and 200 with success = true to a returned context, also when that
\* context records a partial extraction.
C7_StatusOfOutcome ==
    (pc = "responded" /\ endpoint = "analyze") =>
        /\ error = "ValueError" => response.status = StatusUnauthorized
        /\ error = "Exception" => response.status = StatusInternalError
        /\ error = "none" =>
              /\ response.status = StatusOk
              /\ response.success
              /\ failed_stage # "none" => ~ response.data.extraction_success

C7_Witness ==
    /\ pc = "responded"
    /\ endpoint = "analyze"
    /\ failed_stage = "products"
    /\ response.status = StatusOk
    /\ response.success
    /\ ~ response.data.extraction_success

InCatalogOrder(hero, catalog) ==
    \A i, j \in 1..Len(hero) :
        i < j => \E k, l \in 1..Len(catalog) :
                     k < l /\ catalog[k] = hero[i] /\ catalog[l] = hero[j]

DistinctHandles(catalog) ==
    \A i, j \in 1..Len(catalog) : catalog[i].handle = catalog[j].handle => i = j

ReferencedHandles(anchors) == {HandleOfHref(a) : a \in anchors}

\* C8: for a catalog of distinct handles and at most 10 referenced handles,
\* the hero products are exactly the catalog products whose handle the
\* homepage references, each once, in catalog order; catalog <<a, b, c>>
\* with anchors a, c, z gives <<a, c>>.
C8_HeroIsReferencedCatalogSubset ==
    (pc = "hero_out" /\ DistinctHandles(arg.catalog)
                     /\ Cardinality(ReferencedHandles(arg.anchors)) <= HeroLimit) =>
        /\ Range(ret) = {p \in Range(arg.catalog) :
                            p.handle \in ReferencedHandles(arg.anchors)}
        /\ Len(ret) = Cardinality(Range(ret))
        /\ InCatalogOrder(ret, arg.catalog)
        /\ (arg.catalog = <<CatalogProduct("a"), CatalogProduct("b"),
                            CatalogProduct("c")>>
            /\ ReferencedHandles(arg.anchors) = {"a", "c", "z"})
              => ret = <<CatalogProduct("a"), CatalogProduct("c")>>

C8_Witness ==
    /\ pc = "hero_out"
    /\ arg.catalog = <<CatalogProduct("a"), CatalogProduct("b"), CatalogProduct("c")>>
    /\ ReferencedHandles(arg.anchors) = {"a", "c", "z"}
    /\ ret = <<CatalogProduct("a"), CatalogProduct("c")>>

\* C9: social_handles holds at most one entry per (platform, URL) pair.
C9_SocialHandlesDistinct ==
    \A i, j \in 1..Len(brand_context.social_handles) :
        (/\ brand_context.social_handles[i].platform =
                brand_context.social_handles[j].platform
         /\ brand_context.social_handles[i].url =
                brand_context.social_handles[j].url) => i = j

GenericTerms == {"fashion", "beauty", "cosmetics", "clothing", "accessories"}

\* C11: the fallback generator returns at most 8 terms, no term twice, each
\* a lowercased product type of the catalog, a word of the brand name or a
\* generic category term.
C11_FallbackTermsDistinct ==
    pc = "fallback_out" =>
        /\ Len(ret) <= FallbackTerms
        /\ \A i, j \in 1..Len(ret) : ret[i] = ret[j] => i = j
        /\ \A i \in 1..Len(ret) :
              ret[i] \in ProductTypes(arg.product_catalog)
                            \cup Range(NameWords(arg.brand_name)) \cup GenericTerms

\* C12: with competitors, market_position is large_catalog exactly when the
\* primary total exceeds 1.2 times the competitors' mean total,
\* focused_catalog exactly when it is below 0.8 times the mean, and
\* average_catalog otherwise, the boundaries being exclusive (the comparison
\* p > 1.2 * s / n is written 10 * n * p > 12 * s).
C12_MarketPositionByRatio ==
    (pc = "market_out" /\ arg.competitor_products # <<>>) =>
        LET p == arg.primary_products
            s == Sum(arg.competitor_products)
            n == Len(arg.competitor_products)
        IN /\ ret = "large_catalog" <=> 10 * n * p > 12 * s
           /\ ret = "focused_catalog" <=> 10 * n * p < 8 * s
           /\ ret = "average_catalog" <=> (10 * n * p <= 12 * s /\ 10 * n * p >= 8 * s)

\* C13: every similarity score written into a competitor's notes lies in
\* [0.0, 1.0] (0..100 hundredths): an answer outside the range, or one that
\* is no number, gives 0.0.
C13_SimilarityInUnitInterval ==
    \A c \in HeldContexts :
        \A i \in 1..Len(c.extraction_notes) :
            c.extraction_notes[i].text = SimilarityNote(0).text =>
                c.extraction_notes[i].score \in 0..100

\* C14: when the feed answers an object whose products list is empty, the
\* store check falls back to the marker scan: it is true exactly when the
\* root document carries a platform marker.
C14_EmptyFeedFallsBackToMarkers ==
    (pc = "store_out" /\ arg.feed.kind = "list" /\ arg.feed.products = <<>>) =>
        (ret <=> arg.root = "shopify")

\* C15: the candidates of a category are fetched in their listed order;
\* the accepted policy is the first candidate in that order whose page
\* qualifies, no candidate is fetched after it, and the category has no
\* policy exactly when no candidate qualifies (the result is that of
\* ResolvePolicy).
C15_PolicyShortCircuits ==
    pc \in {"policy_loop", "loop_done"} =>
        /\ \A k \in 1..Len(ret.fetched) : ret.fetched[k] = k
        /\ ret.policy.present =>
              /\ ret.policy.candidate = Last(ret.fetched)
              /\ IsSubstantial(arg[ret.policy.candidate])
              /\ \A j \in 1..(ret.policy.candidate - 1) : ~ IsSubstantial(arg[j])
        /\ pc = "loop_done" =>
              /\ ~ ret.policy.present <=>
                     \A j \in PolicyCandidates : ~ IsSubstantial(arg[j])
              /\ ~ ret.policy.present => Len(ret.fetched) = Len(arg)
              /\ ret.policy = ResolvePolicy(arg, 1)

C15_Witness ==
    /\ pc = "loop_done"
    /\ ~ IsSubstantial(arg[1])
    /\ IsSubstantial(arg[2])
    /\ IsSubstantial(arg[3])
    /\ ret.fetched = <<1, 2>>
    /\ ret.policy.candidate = 2

\* A candidate of analyze_competitors is between line 96 and the end of
\* its loop body.
CandidateInProgress ==
    /\ caller = "analyze_competitors"
    /\ pc \notin {"next_competitor", "sleep", "analysed", "responded"}

CandidatesWithinLimit ==
    Len(competitors) + Len(competitor_urls) + (IF CandidateInProgress THEN 1 ELSE 0)
        <= MaxCompetitors

SkipsOnlyTheCandidate ==
    /\ (pc = "raised" /\ caller = "analyze_competitors") =>
          /\ pc' = "next_competitor"
          /\ UNCHANGED <<competitors, competitor_urls, analysis, primary_brand, search_terms>>
    /\ (pc = "next_competitor" /\ competitor_urls # <<>>) =>
          /\ pc' = "is_shopify_store"
          /\ website_url' = Head(competitor_urls)
          /\ competitor_urls' = Tail(competitor_urls)
          /\ competitors' = competitors
    /\ competitors' # competitors =>
          /\ pc = "returned"
          /\ Len(competitors') = Len(competitors) + 1
          /\ IsPrefix(competitors, competitors')
          /\ Last(competitors').website_url = website_url
    /\ (pc = "next_competitor" /\ pc' = "analysed") =>
          /\ competitor_urls = <<>>
          /\ analysis'.competitors = competitors

\* C16: an exception raised while a candidate is analysed skips only that
\* candidate: the loop goes on with the remaining candidates and the
\* competitors gathered so far, every remaining candidate is started in
\* its turn, an analysed candidate is appended at the end of competitors,
\* the summary is made only when no candidate remains, and competitors
\* never holds more than max_competitors entries.
C16_FailedCandidateSkipped == [] CandidatesWithinLimit /\ [][SkipsOnlyTheCandidate]_vars

\* The first candidate was analysed, the second raised and was skipped,
\* and a third is still to be analysed.
C16_Witness ==
    /\ pc = "next_competitor"
    /\ competitors # <<>>
    /\ competitor_urls # <<>>
    /\ website_url # Last(competitors).website_url

PacedStep ==
    (pc' = "next_competitor" /\ pc # "find_competitor_urls" /\ competitor_urls' # <<>>)
        => pc = "sleep"

\* C17: whenever a candidate's analysis has ended, by success or by an
\* exception, and another candidate remains, the loop reaches that
\* candidate only through the pacing delay of line 109.
C17_DelayBetweenCandidates == [][PacedStep]_vars

\* What a disabled capability method returns for the text.
NeutralValue(method, raw_text) ==
    CASE method = "extract_contact_info" -> [kind |-> "none", info |-> <<>>]
      [] method = "enhance_brand_description" -> raw_text
      [] method = "analyze_competitor_similarity" -> 0
      [] OTHER -> <<>>

NoSimilarityNote(ctx) ==
    \A k \in 1..Len(ctx.extraction_notes) :
        ctx.extraction_notes[k].text # SimilarityNote(0).text

\* C18: with the capability disabled, analyze_competitors takes its
\* search terms from the fallback generator, no competitor carries a
\* similarity note, a CompetitorAnalysis of the primary brand and the
\* analysed competitors is returned, and every capability method called
\* returns its neutral value without reaching the external service.
C18_RunsWithoutCapability ==
    ~ llm_enabled =>
        /\ pc = "find_competitor_urls" => search_terms # <<>>
        /\ search_terms # <<>> =>
              search_terms \in _generate_fallback_search_terms(primary_brand)
        /\ \A i \in 1..Len(competitors) : NoSimilarityNote(competitors[i])
        /\ pc = "analysed" =>
              analysis = CompetitorAnalysis(primary_brand, competitors,
                             _create_analysis_summary(primary_brand, competitors,
                                                      search_terms))
        /\ (pc = "responded" /\ endpoint = "analyze_with_competitors"
               /\ response.status = StatusOk) =>
              response.analysis = analysis
        /\ pc = "capability_out" =>
              /\ ret.value = NeutralValue(arg.method, arg.raw_text)
              /\ ~ ret.contacted

C18_Witness ==
    /\ ~ llm_enabled
    /\ pc = "analysed"
    /\ competitors # <<>>
    /\ analysis.competitors = competitors

\* A save step of /analyze either records the identifier of a successful
\* save or leaves the BrandContext as it was.
FailedSaveInvisible ==
    pc = "db" =>
        /\ pc' = "respond"
        /\ \/ brand_context' = AppendNote(brand_context, SavedNote)
           \/ brand_context' = brand_context

\* C19: when the database save of /analyze fails, by returning no
\* identifier or by raising, the BrandContext that is returned equals,
\* extraction_notes included, the one held before the save was attempted.
C19_FailedSaveLeavesContext == [][FailedSaveInvisible]_vars

\* C20: the FAQs of the BrandContext that /analyze returns have pairwise
\* different questions when compared without case.
C20_FaqQuestionsDistinct ==
    (pc = "responded" /\ endpoint = "analyze" /\ response.status = StatusOk) =>
        \A i, j \in 1..Len(response.data.faqs) :
            LowerQuestion(response.data.faqs[i]) = LowerQuestion(response.data.faqs[j])
                => i = j

\* C21: within one call of extract_all_insights, no URL is requested
\* again after a request for it has failed.
C21_FailedUrlNotRequestedAgain ==
    \A i, j \in 1..Len(ret) :
        (i < j /\ ret[i].failed) => ret[j].url # ret[i].url

\* C22: the BrandContext that extract_all_insights returns has
\* extraction_success true exactly when no stage raised, its last note is
\* then the success note, and it carries exactly one note, the success
\* note or the partial-failure note.
C22_OneClosingNote ==
    pc = "returned" =>
        /\ Len(brand_context.extraction_notes) = 1
        /\ brand_context.extraction_success <=> failed_stage = "none"
        /\ brand_context.extraction_success =>
              Last(brand_context.extraction_notes) = SuccessNote
        /\ brand_context.extraction_notes[1] \in {SuccessNote, PartialNote}
        /\ ~ brand_context.extraction_success =>
              brand_context.extraction_notes = <<PartialNote>>

C22_Witness ==
    /\ pc = "returned"
    /\ failed_stage = "none"
    /\ brand_context.extraction_success
    /\ brand_context.extraction_notes = <<SuccessNote>>
    /\ brand_context.total_products > 0

\* The entries of the feed that normalize, in feed order.
NormalizableEntries(feed) ==
    LET kept == SelectSeq(feed.products, LAMBDA e : e.kind = "ok")
    IN [k \in 1..Len(kept) |-> Product(kept[k])]

\* C23: _extract_products returns, without raising, the feed's entries in
\* feed order less exactly the entries whose normalization raised, and an
\* empty catalog for a failed or malformed feed.
C23_CatalogKeepsOtherEntries ==
    pc = "catalog_out" =>
        /\ ~ ret.raised
        /\ ret.products = NormalizableEntries(arg)

\* The order of the steps of one call of extract_all_insights.
OrderedStep ==
    /\ pc' = "is_shopify_store" => pc \in {"idle", "next_competitor"}
    /\ pc = "is_shopify_store" => pc' = "store_checked"
    /\ pc' = "store_checked" => pc = "is_shopify_store"
    /\ (pc = "store_checked" /\ ~ is_shopify_store(probe.feed, probe.root)) =>
          /\ pc' = "raised"
          /\ UNCHANGED <<soup, brand_context>>
    /\ pc = "raised" => pc' \in {"responded", "next_competitor"}
    /\ pc' = "get_page_content" =>
          /\ pc = "store_checked"
          /\ is_shopify_store(probe.feed, probe.root)
    /\ pc' \in StagePcs => pc \in StagePcs \cup {"get_page_content"}
    /\ pc' = "hero" =>
          /\ pc = "products"
          /\ brand_context'.total_products = Len(brand_context'.product_catalog)
    /\ (pc = "hero" /\ pc' = "social") =>
          /\ brand_context'.product_catalog = brand_context.product_catalog
          /\ \E handles \in get_hero_products(soup.product_links) :
                brand_context'.hero_products =
                    _get_products_by_handles(brand_context.product_catalog, handles)

\* C24: in a call of extract_all_insights the store check comes first and
\* once; when it is false the call raises with no homepage, catalog or
\* policy step after it; hero resolution starts only from the completed
\* catalog stage and resolves against the catalog stored in the context.
C24_StoreCheckFirstHeroAfterCatalog == [][OrderedStep]_vars

C24_Witness ==
    /\ pc = "social"
    /\ Len(brand_context.product_catalog) = 2
    /\ Len(brand_context.hero_products) = 1

\* C25: on /analyze-with-competitors a primary URL that fails the store
\* check is answered with the unauthorized status, as on /analyze.
C25_UnauthorizedThroughCompetitors ==
    (pc = "responded" /\ endpoint = "analyze_with_competitors"
        /\ caller = "analyze_shopify_store" /\ error = "ValueError") =>
        response.status = StatusUnauthorized

\* The first two stores of the categories that some term of the list
\* matches.
MatchedStores(terms) ==
    {StoresOfCategory(Categories[c])[k] :
        c \in {d \in 1..Len(Categories) :
                  \E t \in 1..Len(terms) : TermMatches(LowerText(terms[t]), Categories[d])},
        k \in 1..2}

\* C26: find_competitor_urls returns at most max_competitors * 2 URLs
\* without duplicates, each among the first two stores of a category
\* matched by a search term, and none when no term holds a keyword; the
\* candidates analysed exclude the primary's URL.
C26_CandidatesFromMatchedCategories ==
    pc = "candidates_out" =>
        /\ Len(ret.found) <= arg.max_competitors * 2
        /\ \A i, j \in 1..Len(ret.found) : ret.found[i] = ret.found[j] => i = j
        /\ Range(ret.found) \subseteq MatchedStores(arg.terms)
        /\ (\A t \in 1..Len(arg.terms) : KeywordsIn(LowerText(arg.terms[t])) = {})
              => ret.found = <<>>
        /\ arg.primary_url \notin Range(ret.analysed)
        /\ Len(ret.analysed) <= arg.max_competitors

C26_Witness ==
    /\ pc = "candidates_out"
    /\ arg.terms = <<"women", "lipstick">>
    /\ arg.primary_url = "https://colourpop.com"
    /\ arg.max_competitors = 2
    /\ "https://colourpop.com" \in Range(ret.found)
    /\ Len(ret.analysed) = 2

\* C27: the list a run of the fallback generator returns for a primary
\* brand is the list every other run on that brand returns.
C27_FallbackTermsDeterministic ==
    pc = "fallback_out" =>
        \A other \in _generate_fallback_search_terms(arg) : other = ret

\* The versions of the child rows attached to the brand row.
ChildVersions(tables, brand) ==
    {c.version : c \in {d \in tables.children : d.brand_id = brand.id}}

\* C28: after calls of save_brand_analysis that all succeeded, the tables
\* hold one brand row for every saved website_url and none else, and the
\* row's fields and child rows are those of the BrandContext saved last
\* for that URL.
C28_UpsertKeepsLastSave ==
    (pc = "db_idle" /\ ret.all_saved) =>
        /\ \A b1, b2 \in ret.committed.brands :
              b1.website_url = b2.website_url => b1 = b2
        /\ \A u \in SavedUrls :
              ret.saved[u] # 0 <=> ExistingRows(ret.committed, u) # {}
        /\ \A b \in ret.committed.brands :
              /\ b.fields = ret.saved[b.website_url]
              /\ ChildVersions(ret.committed, b) = {ret.saved[b.website_url]}
        /\ \A c \in ret.committed.children :
              \E b \in ret.committed.brands : b.id = c.brand_id

C28_Witness ==
    /\ pc = "db_idle"
    /\ ret.all_saved
    /\ ret.calls = 3
    /\ arg.existing
    /\ \E b \in ret.before.brands :
          /\ b.website_url = arg.ctx.website_url
          /\ b.fields # arg.ctx.version
    /\ Cardinality(ret.committed.brands) = 2

\* C29: when save_brand_analysis reports failure, the committed brand row
\* and child rows are those of before the call.
C29_FailedSaveChangesNothing ==
    (pc = "db_idle" /\ ret.result = "failed") => ret.committed = ret.before

\* A step of analyze_competitors leaves the BrandContext it was given as
\* it is, ends in a CompetitorAnalysis of that BrandContext and raises
\* nothing to its caller.
PrimaryKept ==
    /\ primary_brand # NoContext => primary_brand' = primary_brand
    /\ pc' = "analysed" =>
          /\ analysis'.primary_brand = primary_brand
          /\ NoSimilarityNote(analysis'.primary_brand)
          /\ error' = "none"
          /\ NonStringTerm \in Range(search_terms) =>
                /\ analysis'.competitors = <<>>
                /\ analysis'.analysis_summary = FailedSummary
    /\ (primary_brand # NoContext /\ pc' = "responded") =>
          /\ pc = "analysed"
          /\ response'.status = StatusOk
          /\ response'.analysis.primary_brand = primary_brand

\* C30: analyze_competitors never raises and never changes the primary
\* brand it was given: whatever the term generation, the candidate lookup
\* and the candidate extractions do, it returns a CompetitorAnalysis whose
\* primary_brand is the BrandContext passed in, without any similarity
\* note, and after an unexpected error the result has no competitors and
\* the failure summary.
C30_PrimaryReturnedUnchanged == [][PrimaryKept]_vars

C30_Witness ==
    /\ pc = "analysed"
    /\ llm_enabled
    /\ analysis.primary_brand = primary_brand
    /\ \E i \in 1..Len(analysis.competitors) :
          ~ NoSimilarityNote(analysis.competitors[i])
    /\ primary_brand.extraction_notes # <<>>

====
